---- MODULE Spec2Model ----
(***************************************************************************)
(* Model of modules/swinir_model.py: UpscalerSwinIR.do_upscale, upscale    *)
(* and inference.  One call of do_upscale is followed from entry to its    *)
(* return or to the exception that leaves it.  Tensors are modelled by     *)
(* their spatial extent: the input tensor by the sequences of source row   *)
(* and column indices it holds (so that cat/flip/slice act on real         *)
(* sequences), the accumulation buffers E and W by one integer per         *)
(* spatial position (batch and channel behave identically).                *)
(***************************************************************************)
EXTENDS Integers, Sequences, FiniteSets, TLC

VARIABLES pc, model, imgRows, imgCols, tile, tile_overlap, window_size, scale,
          h_old, w_old, h_pad, w_pad, inf_tile, stride, h_idx_list, w_idx_list,
          E, W, i, j, calls, output, image, error, cacheEmptied

vars == <<pc, model, imgRows, imgCols, tile, tile_overlap, window_size, scale,
          h_old, w_old, h_pad, w_pad, inf_tile, stride, h_idx_list, w_idx_list,
          E, W, i, j, calls, output, image, error, cacheEmptied>>

(* ---- bounds of the explored inputs ---- *)
MaxDim == 5
MaxTile == 4
MaxOverlap == 3
WindowSizes == {2, 3}
Scales == {2, 4}

(* the worked scenario: 130x130 image, window 8, tile 64, overlap 8, x4 *)
Scenario == [h |-> 130, w |-> 130, tile |-> 64, overlap |-> 8, ws |-> 8, sf |-> 4]

(* the error scenario: tile 50 is not a multiple of window 8 *)
ErrorScenario == [h |-> 130, w |-> 130, tile |-> 50, overlap |-> 8, ws |-> 8, sf |-> 4]

Configs ==
  [h : 1..MaxDim, w : 1..MaxDim, tile : 1..MaxTile, overlap : 0..MaxOverlap,
   ws : WindowSizes, sf : Scales] \cup {Scenario, ErrorScenario}

None == <<>>

Min2(a, b) == IF a < b THEN a ELSE b

Min3(a, b, c) == Min2(a, Min2(b, c))

(* ---- Python / torch primitives ---- *)
RECURSIVE PyRange(_, _, _)
PyRange(start, stop, step) ==
  IF (step > 0 /\ start < stop) \/ (step < 0 /\ start > stop)
  THEN <<start>> \o PyRange(start + step, stop, step)
  ELSE <<>>

(* s[:n] : a slice never reaches past the end of the sequence *)
PySlice(s, n) == SubSeq(s, 1, Min2(n, Len(s)))

Flip(s) == [k \in 1..Len(s) |-> s[Len(s) + 1 - k]]

(* torch.cat([img, torch.flip(img, [d])], d)[..., : n] along one axis *)
ReflectPad(s, n) == PySlice(s \o Flip(s), n)

(* variant: pads up to the next multiple, nothing when already aligned *)
PadAmountCeil(n, ws) == (ws - (n % ws)) % ws

PadAmount(n, ws) == ((n \div ws) + 1) * ws - n

RECURSIVE Gcd(_, _)
Gcd(a, b) == IF b = 0 THEN a ELSE Gcd(b, a % b)

NaN == <<0, 0>>

Inf == <<1, 0>>

(* elementwise E / W in floating point, as a reduced fraction: x/0 is nan
   or inf, never an error *)
Quot(e, w) ==
  IF w = 0 THEN (IF e = 0 THEN NaN ELSE Inf)
  ELSE <<e \div Gcd(e, w), w \div Gcd(e, w)>>

(* tensor.squeeze(): every dimension of size 1 is dropped *)
Squeeze(shape) == SelectSeq(shape, LAMBDA d : d # 1)

(* the black-box network: value of out_patch[y][x] for the tile at the
   given origin (1-based y, x inside the patch); deterministic *)
ModelOut(h_idx, w_idx, y, x) == 1 + ((7 * h_idx + 3 * w_idx + y + 2 * x) % 5)

(* ---- inference() helpers ---- *)
ClampTile(t, h, w) == Min3(t, h, w)

(* variant: the assert is missing *)
AssertOkMissing(t, ws) == TRUE

AssertOk(t, ws) == t % ws = 0

(* variant: the range stop is inclusive, the last origin is listed twice *)
IdxListInclusive(n, t, s) == PyRange(0, n - t + 1, s) \o <<n - t>>

IdxList(n, t, s) == PyRange(0, n - t, s) \o <<n - t>>

Zeros(h, w) == [y \in 1..h |-> [x \in 1..w |-> 0]]

InTile(h_idx, w_idx, t, sf, y, x) ==
  /\ h_idx * sf < y /\ y <= (h_idx + t) * sf
  /\ w_idx * sf < x /\ x <= (w_idx + t) * sf

AddPatch(buf, h_idx, w_idx, t, sf) ==
  [y \in 1..Len(buf) |-> [x \in 1..Len(buf[y]) |->
     IF InTile(h_idx, w_idx, t, sf, y, x)
     THEN buf[y][x] + ModelOut(h_idx, w_idx, y - h_idx * sf, x - w_idx * sf)
     ELSE buf[y][x]]]

AddMask(buf, h_idx, w_idx, t, sf) ==
  [y \in 1..Len(buf) |-> [x \in 1..Len(buf[y]) |->
     IF InTile(h_idx, w_idx, t, sf, y, x) THEN buf[y][x] + 1 ELSE buf[y][x]]]

DivBuf(e, w) == [y \in 1..Len(e) |-> [x \in 1..Len(e[y]) |-> Quot(e[y][x], w[y][x])]]

(* variant: only the columns are cropped *)
CropColsOnly(buf, h, w) == [y \in 1..Len(buf) |-> PySlice(buf[y], w)]

(* output[..., : h, : w] *)
Crop(buf, h, w) == [y \in 1..Min2(h, Len(buf)) |-> PySlice(buf[y], w)]

(* shape of the PIL image built from the squeezed, transposed array *)
ImageShape(buf) ==
  LET sq == Squeeze(<<1, 3, Len(buf), Len(buf[1])>>)
  IN  IF Len(sq) = 3 THEN <<sq[2], sq[3], sq[1]>> ELSE sq

(* ---- state machine ---- *)
Init ==
  \E c \in Configs :
    /\ pc = "do_upscale"
    /\ model = "unset"
    /\ imgRows = [k \in 1..c.h |-> k]
    /\ imgCols = [k \in 1..c.w |-> k]
    /\ tile = c.tile
    /\ tile_overlap = c.overlap
    /\ window_size = c.ws
    /\ scale = c.sf
    /\ h_old = 0 /\ w_old = 0 /\ h_pad = 0 /\ w_pad = 0
    /\ inf_tile = 0 /\ stride = 0
    /\ h_idx_list = <<>> /\ w_idx_list = <<>>
    /\ E = None /\ W = None
    /\ i = 1 /\ j = 1
    /\ calls = <<>>
    /\ output = None
    /\ image = None
    /\ error = "none"
    /\ cacheEmptied = FALSE

inferenceVars == <<inf_tile, stride, h_idx_list, w_idx_list, E, W, i, j, calls>>
argVars == <<tile, tile_overlap, window_size, scale>>
padVars == <<h_old, w_old, h_pad, w_pad>>

(* do_upscale: load_model returned None, the input image is handed back *)
LoadModelNone ==
  /\ pc = "do_upscale"
  /\ model' = "None"
  /\ image' = <<Len(imgRows), Len(imgCols), 3>>
  /\ pc' = "returned"
  /\ UNCHANGED <<imgRows, imgCols, argVars, padVars, inferenceVars, output,
                 error, cacheEmptied>>

(* do_upscale: a model was loaded and moved to the device *)
LoadModel ==
  /\ pc = "do_upscale"
  /\ model' = "net"
  /\ pc' = "upscale"
  /\ UNCHANGED <<imgRows, imgCols, argVars, padVars, inferenceVars, output,
                 image, error, cacheEmptied>>

(* upscale: tensor conversion and mirror padding, up to the inference call *)
Pad ==
  /\ pc = "upscale"
  /\ h_old' = Len(imgRows)
  /\ w_old' = Len(imgCols)
  /\ h_pad' = PadAmount(h_old', window_size)
  /\ w_pad' = PadAmount(w_old', window_size)
  /\ imgRows' = ReflectPad(imgRows, h_old' + h_pad')
  /\ imgCols' = ReflectPad(imgCols, w_old' + w_pad')
  /\ pc' = "inference"
  /\ UNCHANGED <<model, argVars, inferenceVars, output, image, error, cacheEmptied>>

(* inference: the assert on the clamped tile size fails *)
InferenceAssertFails ==
  /\ pc = "inference"
  /\ inf_tile' = ClampTile(tile, Len(imgRows), Len(imgCols))
  /\ ~AssertOk(inf_tile', window_size)
  /\ error' = "AssertionError"
  /\ pc' = "raised"
  /\ UNCHANGED <<model, imgRows, imgCols, argVars, padVars, stride, h_idx_list,
                 w_idx_list, E, W, i, j, calls, output, image, cacheEmptied>>

(* inference: stride is 0, range() raises ValueError *)
InferenceRangeFails ==
  /\ pc = "inference"
  /\ inf_tile' = ClampTile(tile, Len(imgRows), Len(imgCols))
  /\ AssertOk(inf_tile', window_size)
  /\ stride' = inf_tile' - tile_overlap
  /\ stride' = 0
  /\ error' = "ValueError"
  /\ pc' = "raised"
  /\ UNCHANGED <<model, imgRows, imgCols, argVars, padVars, h_idx_list,
                 w_idx_list, E, W, i, j, calls, output, image, cacheEmptied>>

(* inference: tile clamp, origin lists and buffer allocation *)
InferenceSetup ==
  /\ pc = "inference"
  /\ inf_tile' = ClampTile(tile, Len(imgRows), Len(imgCols))
  /\ AssertOk(inf_tile', window_size)
  /\ stride' = inf_tile' - tile_overlap
  /\ stride' # 0
  /\ h_idx_list' = IdxList(Len(imgRows), inf_tile', stride')
  /\ w_idx_list' = IdxList(Len(imgCols), inf_tile', stride')
  /\ E' = Zeros(Len(imgRows) * scale, Len(imgCols) * scale)
  /\ W' = Zeros(Len(imgRows) * scale, Len(imgCols) * scale)
  /\ i' = 1 /\ j' = 1
  /\ pc' = "loop"
  /\ UNCHANGED <<model, imgRows, imgCols, argVars, padVars, calls, output,
                 image, error, cacheEmptied>>

MoreTiles == pc = "loop" /\ i <= Len(h_idx_list)

(* one iteration of the nested loops: the model answers, E and W are updated *)
TileStep ==
  /\ MoreTiles
  /\ LET h_idx == h_idx_list[i]
         w_idx == w_idx_list[j]
     IN  /\ calls' = Append(calls, <<h_idx, w_idx>>)
         /\ E' = AddPatch(E, h_idx, w_idx, inf_tile, scale)
         /\ W' = AddMask(W, h_idx, w_idx, inf_tile, scale)
  /\ IF j < Len(w_idx_list) THEN i' = i /\ j' = j + 1 ELSE i' = i + 1 /\ j' = 1
  /\ UNCHANGED <<pc, model, imgRows, imgCols, argVars, padVars, inf_tile, stride,
                 h_idx_list, w_idx_list, output, image, error, cacheEmptied>>

(* one iteration of the nested loops: the model call raises *)
TileModelFails ==
  /\ MoreTiles
  /\ calls' = Append(calls, <<h_idx_list[i], w_idx_list[j]>>)
  /\ error' = "ModelError"
  /\ pc' = "raised"
  /\ UNCHANGED <<model, imgRows, imgCols, argVars, padVars, inf_tile, stride,
                 h_idx_list, w_idx_list, E, W, i, j, output, image, cacheEmptied>>

(* inference: output = E.div_(W), in place, and return *)
Divide ==
  /\ pc = "loop"
  /\ i > Len(h_idx_list)
  /\ E' = DivBuf(E, W)
  /\ pc' = "crop"
  /\ UNCHANGED <<model, imgRows, imgCols, argVars, padVars, inf_tile, stride,
                 h_idx_list, w_idx_list, W, i, j, calls, output, image, error,
                 cacheEmptied>>

(* upscale: crop to the scaled original extent and build the image *)
Finalize ==
  /\ pc = "crop"
  /\ output' = Crop(E, h_old * scale, w_old * scale)
  /\ image' = ImageShape(output')
  /\ pc' = "empty_cache"
  /\ UNCHANGED <<model, imgRows, imgCols, argVars, padVars, inferenceVars,
                 error, cacheEmptied>>

(* do_upscale: torch.cuda.empty_cache() (its own failure is swallowed) *)
EmptyCache ==
  /\ pc = "empty_cache"
  /\ cacheEmptied' = TRUE
  /\ pc' = "returned"
  /\ UNCHANGED <<model, imgRows, imgCols, argVars, padVars, inferenceVars,
                 output, image, error>>

Next ==
  \/ LoadModelNone
  \/ LoadModel
  \/ Pad
  \/ InferenceAssertFails
  \/ InferenceRangeFails
  \/ InferenceSetup
  \/ TileStep
  \/ TileModelFails
  \/ Divide
  \/ Finalize
  \/ EmptyCache

Spec == Init /\ [][Next]_vars

TypeOK ==
  /\ pc \in {"do_upscale", "upscale", "inference", "loop", "crop", "empty_cache",
             "returned", "raised"}
  /\ error \in {"none", "AssertionError", "ValueError", "ModelError"}
  /\ (pc = "raised") <=> (error # "none")

(* ---- state predicates used by the properties ---- *)
Padded == model = "net" /\ pc \notin {"do_upscale", "upscale"}

InferenceLeft == model = "net" /\ pc \notin {"do_upscale", "upscale", "inference"}

Scheduled == model = "net" /\ h_idx_list # <<>>

AllAccumulated ==
  /\ model = "net"
  /\ \/ pc = "loop" /\ i > Len(h_idx_list)
     \/ pc \in {"crop", "empty_cache", "returned"}

Divided == model = "net" /\ pc \in {"crop", "empty_cache", "returned"}

PaddedH == Len(imgRows)

PaddedW == Len(imgCols)

ClampedTile == ClampTile(tile, PaddedH, PaddedW)

WeightPositive == \A y \in 1..Len(W) : \A x \in 1..Len(W[y]) : W[y][x] > 0

(* least multiple of ws in lo .. lo + ws - 1 *)
LeastMultipleFrom(lo, ws) == CHOOSE m \in lo..(lo + ws - 1) : m % ws = 0

(* C1: full coverage -- for 0 <= overlap < requested tile and a clamped tile
   that is a multiple of the window size, once all scheduled tiles have been
   accumulated every entry of the weight buffer W is > 0. *)
C1_FullCoverage ==
  (AllAccumulated /\ 0 <= tile_overlap /\ tile_overlap < tile
     /\ ClampedTile % window_size = 0)
  => WeightPositive

(* Coverage does hold when the overlap is below the tile size in effect. *)
CoverageBelowClampedTile ==
  (AllAccumulated /\ tile_overlap < inf_tile) => WeightPositive

(* C2: the tensor passed to inference() has a height and a width that are
   both multiples of window_size, for every input of height, width >= 1. *)
C2_PaddedMultiple ==
  Padded => (PaddedH % window_size = 0 /\ PaddedW % window_size = 0)

(* C3 as stated: the padded height (width) is the smallest multiple of
   window_size that is >= the original one; aligned dimensions are unpadded. *)
C3_SmallestMultipleAtLeast ==
  Padded => /\ PaddedH = LeastMultipleFrom(h_old, window_size)
            /\ PaddedW = LeastMultipleFrom(w_old, window_size)

(* C3 amended: the padded height (width) is the smallest multiple of
   window_size strictly greater than the original one, capped at twice the
   original (the reflection supplies no more rows than the image has). *)
C3_NextMultipleCapped ==
  Padded => /\ PaddedH = Min2(2 * h_old, LeastMultipleFrom(h_old + 1, window_size))
            /\ PaddedW = Min2(2 * w_old, LeastMultipleFrom(w_old + 1, window_size))

(* an aligned height that received a whole extra window, next to a width
   that was padded to the next multiple *)
C3_Witness ==
  /\ Padded
  /\ h_old % window_size = 0 /\ PaddedH = h_old + window_size
  /\ w_old % window_size # 0 /\ PaddedW > w_old /\ PaddedW % window_size = 0

(* C4: padding round-trip -- the image returned by upscale() has exactly the
   dimensions (h_old * scale, w_old * scale), whatever padding was added. *)
C4_RoundTrip ==
  (model = "net" /\ image # None) => image = <<h_old * scale, w_old * scale, 3>>

(* an image was returned after unequal, non-zero padding of both axes *)
C4_Witness ==
  /\ model = "net" /\ pc = "returned" /\ image # None
  /\ h_pad > 0 /\ w_pad > 0 /\ h_pad # w_pad
  /\ PaddedH > h_old /\ PaddedW > w_old

(* the origins 0, stride, 2*stride, ... taken while they are < n - inf_tile
   (the first one that is not ends the run), then n - inf_tile *)
OriginsAsSpecified(list, n) ==
  /\ Len(list) >= 1
  /\ list[Len(list)] = n - inf_tile
  /\ \A k \in 1..(Len(list) - 1) : list[k] = (k - 1) * stride /\ list[k] < n - inf_tile
  /\ (Len(list) - 1) * stride >= n - inf_tile

RowMajor ==
  [k \in 1..(Len(h_idx_list) * Len(w_idx_list)) |->
     <<h_idx_list[((k - 1) \div Len(w_idx_list)) + 1],
       w_idx_list[((k - 1) % Len(w_idx_list)) + 1]>>]

IsScenario ==
  /\ h_old = Scenario.h /\ w_old = Scenario.w /\ tile = Scenario.tile
  /\ tile_overlap = Scenario.overlap /\ window_size = Scenario.ws
  /\ scale = Scenario.sf

ScheduleAsSpecified ==
  /\ inf_tile = Min3(tile, PaddedH, PaddedW)
  /\ stride = inf_tile - tile_overlap
  /\ OriginsAsSpecified(h_idx_list, PaddedH)
  /\ OriginsAsSpecified(w_idx_list, PaddedW)
  /\ Len(calls) <= Len(RowMajor)
  /\ calls = SubSeq(RowMajor, 1, Len(calls))
  /\ AllAccumulated => calls = RowMajor
  /\ IsScenario =>
       /\ h_pad = 6 /\ w_pad = 6 /\ PaddedH = 136 /\ PaddedW = 136
       /\ h_idx_list = <<0, 56, 72>> /\ w_idx_list = <<0, 56, 72>>
       /\ (AllAccumulated => Len(calls) = 9)
       /\ (image # None => image = <<520, 520, 3>>)

(* C5: tile schedule -- the row (column) origins are 0, stride, 2*stride, ...
   for all values < H - T, followed by H - T; the model is invoked once per
   pair of the cross product in row-major order; the 130x130 scenario gives
   padding 6, 136x136, origins [0, 56, 72], 9 tiles and a 520x520 output. *)
C5_TileSchedule == Scheduled => ScheduleAsSpecified

(* The schedule is as specified whenever the stride is positive. *)
ScheduleWhenStridePositive == (Scheduled /\ stride > 0) => ScheduleAsSpecified

(* origin of the one tile of an aligned, non-overlapping grid that holds
   the 1-based buffer coordinate p *)
GridOrigin(p) == ((p - 1) \div (inf_tile * scale)) * inf_tile

(* C6: non-overlap identity -- with overlap 0 and padded H, W exact multiples
   of the clamped tile, after all tiles are accumulated the weight buffer is
   1 everywhere and E / W at each position is the single model output
   written there. *)
C6_NonOverlapIdentity ==
  (AllAccumulated /\ tile_overlap = 0
     /\ PaddedH % inf_tile = 0 /\ PaddedW % inf_tile = 0)
  => /\ \A y \in 1..Len(W) : \A x \in 1..Len(W[y]) : W[y][x] = 1
     /\ Divided =>
          \A y \in 1..Len(E) : \A x \in 1..Len(E[y]) :
            E[y][x] = <<ModelOut(GridOrigin(y), GridOrigin(x),
                                 y - GridOrigin(y) * scale,
                                 x - GridOrigin(x) * scale), 1>>

(* a divided result of a grid of at least two rows and two columns of tiles *)
C6_Witness ==
  /\ Divided /\ tile_overlap = 0
  /\ PaddedH % inf_tile = 0 /\ PaddedW % inf_tile = 0
  /\ Len(h_idx_list) >= 2 /\ Len(w_idx_list) >= 2
  /\ Len(calls) = Len(h_idx_list) * Len(w_idx_list)

(* C7: when the clamped tile is not a multiple of window_size, inference()
   fails before either buffer is allocated and before the model is invoked;
   no image is returned. *)
C7_AssertBeforeAlloc ==
  (InferenceLeft /\ ClampedTile % window_size # 0)
  => /\ pc = "raised" /\ error = "AssertionError"
     /\ E = None /\ W = None
     /\ calls = <<>>
     /\ image = None

(* the tile 50 / window 8 scenario has been rejected *)
C7_Witness ==
  /\ InferenceLeft /\ tile = 50 /\ window_size = 8 /\ PaddedH >= 50 /\ PaddedW >= 50
  /\ inf_tile = 50 /\ pc = "raised" /\ error = "AssertionError"

(* C8: when the overlap is >= the tile size in effect, the call is rejected
   with an error: no model invocation, no accumulation, no image. *)
C8_OverlapRejected ==
  (InferenceLeft /\ tile_overlap >= ClampedTile)
  => /\ pc = "raised"
     /\ calls = <<>>
     /\ W = None
     /\ image = None

(* C9: the division E / W is never performed with a zero weight; a zero
   weight after all tiles makes the call fail instead of returning. *)
C9_NoZeroWeightDivision ==
  Divided => /\ WeightPositive
             /\ \A y \in 1..Len(E) : \A x \in 1..Len(E[y]) : E[y][x] \notin {NaN, Inf}

(* C10: once a model is loaded and upscale() started, every exit of
   do_upscale, by return or by exception, has executed empty_cache. *)
C10_ReleaseOnEveryExit ==
  (model = "net" /\ pc \in {"returned", "raised"}) => cacheEmptied

(* The release does happen on the returning path. *)
ReleaseOnReturn == (model = "net" /\ pc = "returned") => cacheEmptied
====
